---------------------------- MODULE Spec2Model ----------------------------
(***************************************************************************)
(* Water viscosity after IAPWS (WaterViscosityIAPWS.cpp): getValue,        *)
(* getdValuedT, getdValuedRho and their static helpers.                    *)
(*                                                                         *)
(* Number model.  A C++ double is modelled by its IEEE-754 class (finite,  *)
(* +-infinity, NaN) and, when finite, by an exact value                    *)
(*        (+-) n/d * sqrt(rad)^s * exp(e)                                  *)
(* with n/d, rad and e exact rationals over arbitrary-size naturals (TLC's *)
(* own integers are 32 bit wide, so naturals are limb sequences).  Zero    *)
(* keeps its sign.  std::sqrt and std::exp of a finite nonzero argument    *)
(* are kept as symbols obeying sqrt(x)*sqrt(x) = x and                     *)
(* exp(a)*exp(b) = exp(a+b); the special arguments (0, infinities, NaN,    *)
(* negative radicand) follow IEEE-754.  Rounding of the 53-bit mantissa    *)
(* and overflow of the exponent range are not modelled.                    *)
(***************************************************************************)
EXTENDS Integers, Sequences, FiniteSets, TLC

(***************************************************************************)
(* Arbitrary-size naturals: little-endian limb sequences, base 10^4,       *)
(* without high zero limbs; zero is the empty sequence.  Exact rationals   *)
(* [neg, n, d]: sign, numerator and denominator in lowest terms, d # 0; a  *)
(* zero numerator keeps its sign (the IEEE-754 signed zero).               *)
(*                                                                         *)
(* double values [k, q, s, rad, e]: k is the IEEE-754 class; q carries the *)
(* sign bit (also of an infinity) and, for a finite value, the rational    *)
(* coefficient; s is the power (0 or 1) of sqrt(rad); e is the argument of *)
(* the exp factor.  A finite value is q * sqrt(rad)^s * exp(e); a zero has *)
(* s = 0 and e = 0.                                                        *)
(*                                                                         *)
(* TLC's own integers are used for single limbs, for products of two limbs *)
(* and for naturals below 10^8.                                            *)
(***************************************************************************)
Base == 10 ^ 4

\* naturals below Base^2 = 10^8 are also computed with as integers
NFits(a) == Len(a) <= 2

NInt(a) ==
    IF a = << >> THEN 0 ELSE IF Len(a) = 1 THEN a[1] ELSE a[1] + Base * a[2]

QZero == [neg |-> FALSE, n |-> << >>, d |-> <<1>>]

QOne == [neg |-> FALSE, n |-> <<1>>, d |-> <<1>>]

QSignedZero(neg) == [neg |-> neg, n |-> << >>, d |-> <<1>>]

QIsZero(a) == a.n = << >>

QNeg(a) == [a EXCEPT !.neg = ~a.neg]

\* 1/a for a # 0
QInv(a) == [neg |-> a.neg, n |-> a.d, d |-> a.n]

VRat(q) == [k |-> "fin", q |-> q, s |-> 0, rad |-> QOne, e |-> QZero]

VNaN == [k |-> "nan", q |-> QZero, s |-> 0, rad |-> QOne, e |-> QZero]

VInf(neg) == [k |-> "inf", q |-> QSignedZero(neg), s |-> 0, rad |-> QOne, e |-> QZero]

VSignedZero(neg) == VRat(QSignedZero(neg))

VZero == VRat(QZero)

VOne == VRat(QOne)

VIsNaN(a) == a.k = "nan"

VIsInf(a) == a.k = "inf"

VIsFinite(a) == a.k = "fin"

VIsZero(a) == a.k = "fin" /\ QIsZero(a.q)

\* a finite value without sqrt or exp factor
VIsRational(a) == a.k = "fin" /\ a.s = 0 /\ QIsZero(a.e)

VNeg(a) == IF a.k = "nan" THEN a ELSE [a EXCEPT !.q = QNeg(a.q)]

(***************************************************************************)
(* Naturals, limb by limb.  The operators below are applied to limb        *)
(* sequences; sums and differences resolve their carries by looking back   *)
(* along the limbs, which takes no recursion.                              *)
(***************************************************************************)
\* the limb i of a; 0 above its top limb
NLimb(a, i) == IF i <= Len(a) THEN a[i] ELSE 0

\* a without its high zero limbs
NTrim(a) ==
    SubSeq(a, 1, CHOOSE i \in 0..Len(a) :
                     /\ i = 0 \/ a[i] # 0
                     /\ \A j \in (i + 1)..Len(a) : a[j] = 0)

\* the natural 0 <= k < 2^31
NFromInt(k) ==
    IF k = 0 THEN << >>
    ELSE IF k < Base THEN <<k>>
    ELSE IF k < Base * Base THEN <<k % Base, k \div Base>>
    ELSE <<k % Base, (k \div Base) % Base, k \div (Base * Base)>>

\* a + b: the limb sums S(i) are at most 2*Base - 2; a limb sum of at least Base
\* makes a carry, limb sums Base - 1 pass it on
NAdd(a, b) ==
    LET S(i) == NLimb(a, i) + NLimb(b, i)
        Carry(i) ==
            \E j \in 1..(i - 1) :
                S(j) >= Base /\ \A m \in (j + 1)..(i - 1) : S(m) = Base - 1
        n == IF Len(a) > Len(b) THEN Len(a) ELSE Len(b)
    IN  NTrim([i \in 1..(n + 1) |-> (S(i) + (IF Carry(i) THEN 1 ELSE 0)) % Base])

\* a - b for a >= b: limb j borrows when it is too small, equal limbs pass the
\* borrow on
NSub(a, b) ==
    LET Borrow(i) ==
            \E j \in 1..(i - 1) :
                a[j] < NLimb(b, j) /\ \A m \in (j + 1)..(i - 1) : a[m] = NLimb(b, m)
    IN  NTrim([i \in 1..Len(a) |->
                  (a[i] - NLimb(b, i) - (IF Borrow(i) THEN 1 ELSE 0) + Base) % Base])

\* -1, 0, 1 as a < b, a = b, a > b
NCmp(a, b) ==
    IF Len(a) # Len(b) THEN (IF Len(a) < Len(b) THEN -1 ELSE 1)
    ELSE LET diff == {i \in 1..Len(a) : a[i] # b[i]}
         IN  IF diff = {} THEN 0
             ELSE IF \E i \in diff : a[i] < b[i] /\ \A j \in diff : j <= i
             THEN -1
             ELSE 1

\* a * k for 0 <= k <= Base: the limb sum S(i) is the low part of a[i] * k plus
\* the high part of a[i - 1] * k, and the carries go as in NAdd
NMulS(a, k) ==
    LET S(i) == ((NLimb(a, i) * k) % Base)
                + (IF i > 1 THEN (a[i - 1] * k) \div Base ELSE 0)
        Carry(i) ==
            \E j \in 1..(i - 1) :
                S(j) >= Base /\ \A m \in (j + 1)..(i - 1) : S(m) = Base - 1
    IN  NTrim([i \in 1..(Len(a) + 1) |->
                  (S(i) + (IF Carry(i) THEN 1 ELSE 0)) % Base])

(***************************************************************************)
(* The arithmetic is the one recursive function Ar; Ar[<<op, x1, ...>>] is *)
(* the operation op of the operands x1, ...  The operands of an operation  *)
(* are values, computed once; a step that needs an intermediate result     *)
(* twice passes it on as an operand.  Loops over the limbs and the steps   *)
(* of Euclid's algorithm are split in halves, which keeps the evaluation   *)
(* shallow.                                                                *)
(***************************************************************************)
Ar[p \in Any] ==
    CASE p[1] = "add" -> NAdd(p[2], p[3])
      [] p[1] = "sub" -> NSub(p[2], p[3])
      [] p[1] = "muls" -> NMulS(p[2], p[3])
      [] p[1] = "mul" ->
            \* p[2] * p[3], the limbs of p[3] split in halves
            IF p[2] = << >> \/ p[3] = << >> THEN << >>
            ELSE IF Len(p[3]) = 1 THEN NMulS(p[2], p[3][1])
            ELSE IF Len(p[2]) = 1 THEN NMulS(p[3], p[2][1])
            ELSE Ar[<<"add",
                      Ar[<<"mul", p[2], SubSeq(p[3], 1, Len(p[3]) \div 2)>>],
                      [i \in 1..(Len(p[3]) \div 2) |-> 0]
                      \o Ar[<<"mul", p[2],
                              SubSeq(p[3], Len(p[3]) \div 2 + 1, Len(p[3]))>>]>>]
      [] p[1] = "digit" ->
            \* the limb q with q*b <= r < (q+1)*b, and r - q*b, for r = p[2],
            \* b = p[3], counting down from the estimate p[4] >= q; p[5] = p[4]*b
            IF NCmp(p[5], p[2]) <= 0 THEN [q |-> p[4], r |-> NSub(p[2], p[5])]
            ELSE Ar[<<"digit", p[2], p[3], p[4] - 1, NSub(p[5], p[3])>>]
      [] p[1] = "dmstep" ->
            \* one limb of a long division by b = p[2]: p[3] the limbs of the
            \* quotient so far, p[4] the running remainder with the next limb
            \* of the dividend below it.  The top limb of a longer b is at least
            \* Base/2, so the estimate of the limb is at most 2 too big
            IF p[4] = << >> \/ NCmp(p[4], p[2]) < 0
            THEN [q |-> <<0>> \o p[3], r |-> p[4]]
            ELSE IF NFits(p[4])
            THEN [q |-> <<NInt(p[4]) \div NInt(p[2])>> \o p[3],
                  r |-> NFromInt(NInt(p[4]) % NInt(p[2]))]
            ELSE LET lb == Len(p[2])
                     top == IF Len(p[4]) > lb THEN p[4][lb + 1] * Base + p[4][lb]
                            ELSE p[4][lb]
                     est == top \div p[2][lb]
                     qh == IF est > Base - 1 THEN Base - 1 ELSE est
                 IN  Ar[<<"dmq", p[3],
                          Ar[<<"digit", p[4], p[2], qh, NMulS(p[2], qh)>>]>>]
      [] p[1] = "dmq" ->
            [q |-> <<p[3].q>> \o p[2], r |-> p[3].r]
      [] p[1] = "dm" ->
            \* the long division of the limbs p[4], ..., p[5] of a = p[2] by
            \* b = p[3], from the state p[6]: the limbs of the quotient so far
            \* and the running remainder; the limbs are split in halves
            IF p[4] < p[5] THEN p[6]
            ELSE IF p[4] = p[5]
            THEN Ar[<<"dmstep", p[3], p[6].q, NTrim(<<p[2][p[4]]>> \o p[6].r)>>]
            ELSE Ar[<<"dm", p[2], p[3], (p[4] + p[5] + 1) \div 2 - 1, p[5],
                      Ar[<<"dm", p[2], p[3], p[4], (p[4] + p[5] + 1) \div 2,
                           p[6]>>]>>]
      [] p[1] = "divmod" ->
            \* [q, r] with a = q*b + r and r < b, for a = p[2], b = p[3] # 0
            IF NCmp(p[2], p[3]) < 0 THEN [q |-> << >>, r |-> p[2]]
            ELSE IF NFits(p[2])
            THEN [q |-> NFromInt(NInt(p[2]) \div NInt(p[3])),
                  r |-> NFromInt(NInt(p[2]) % NInt(p[3]))]
            ELSE IF Len(p[3]) = 1
            THEN Ar[<<"dmscaled", p[2], p[3], 1>>]
            ELSE Ar[<<"dmscaled",
                      NMulS(p[2], Base \div (p[3][Len(p[3])] + 1)),
                      NMulS(p[3], Base \div (p[3][Len(p[3])] + 1)),
                      Base \div (p[3][Len(p[3])] + 1)>>]
      [] p[1] = "dmscaled" ->
            \* dividend and divisor scaled by p[4], which makes the top limb of
            \* the divisor at least Base/2
            Ar[<<"dmback",
                 Ar[<<"dm", p[2], p[3], Len(p[2]), 1, [q |-> << >>, r |-> << >>]>>],
                 p[4]>>]
      [] p[1] = "dmback" ->
            \* the remainder scaled back
            [q |-> NTrim(p[2].q),
             r |-> IF p[3] = 1 THEN p[2].r
                   ELSE Ar[<<"divmod", p[2].r, <<p[3]>> >>].q]
      [] p[1] = "div" ->
            IF p[3] = <<1>> THEN p[2] ELSE Ar[<<"divmod", p[2], p[3]>>].q
      [] p[1] = "igcdn" ->
            \* the pair Euclid's algorithm reaches from the pair of integers
            \* p[3] in at most p[2] steps, the steps split in halves
            IF p[3][2] = 0 THEN p[3]
            ELSE IF p[2] = 1 THEN <<p[3][2], p[3][1] % p[3][2]>>
            ELSE Ar[<<"igcdn", p[2] - p[2] \div 2,
                      Ar[<<"igcdn", p[2] \div 2, p[3]>>]>>]
      [] p[1] = "gcdn" ->
            \* the same for a pair of naturals; below Base^2 the integers take
            \* over, where 2^6 steps reach the end
            IF p[3][2] = << >> THEN p[3]
            ELSE IF NFits(p[3][1]) /\ NFits(p[3][2])
            THEN <<NFromInt(Ar[<<"igcdn", 2 ^ 6,
                                 <<NInt(p[3][1]), NInt(p[3][2])>> >>][1]),
                   << >> >>
            ELSE IF p[2] = 1
            THEN <<p[3][2], Ar[<<"divmod", p[3][1], p[3][2]>>].r>>
            ELSE Ar[<<"gcdn", p[2] - p[2] \div 2,
                      Ar[<<"gcdn", p[2] \div 2, p[3]>>]>>]
      [] p[1] = "gcd" ->
            \* Euclid's algorithm; gcd(a, 0) = a
            IF p[3] = << >> THEN p[2]
            ELSE IF p[3] = <<1>> \/ p[2] = <<1>> THEN <<1>>
            ELSE Ar[<<"gcdgo", Ar[<<"gcdn", 2 ^ 8, <<p[2], p[3]>> >>]>>]
      [] p[1] = "gcdgo" ->
            \* goes on from the pair p[2] if its steps did not reach the end
            IF p[2][2] = << >> THEN p[2][1] ELSE Ar[<<"gcd", p[2][1], p[2][2]>>]
      [] p[1] = "pow10" ->
            IF p[2] = 0 THEN <<1>>
            ELSE Ar[<<"muls", Ar[<<"pow10", p[2] - 1>>], 10>>]
      [] p[1] = "isqrt" ->
            \* the r in p[3]..p[4] with r*r = p[2], or -1 (p[4] < 2^15)
            IF p[3] > p[4] THEN -1
            ELSE IF ((p[3] + p[4]) \div 2) * ((p[3] + p[4]) \div 2) = p[2]
            THEN (p[3] + p[4]) \div 2
            ELSE IF ((p[3] + p[4]) \div 2) * ((p[3] + p[4]) \div 2) < p[2]
            THEN Ar[<<"isqrt", p[2], (p[3] + p[4]) \div 2 + 1, p[4]>>]
            ELSE Ar[<<"isqrt", p[2], p[3], (p[3] + p[4]) \div 2 - 1>>]
      [] p[1] = "qmake" ->
            \* the rational (sign p[2]) p[3]/p[4] in lowest terms
            IF p[3] = << >> THEN QSignedZero(p[2])
            ELSE Ar[<<"qreduce", p[2], p[3], p[4], Ar[<<"gcd", p[3], p[4]>>]>>]
      [] p[1] = "qreduce" ->
            [neg |-> p[2], n |-> Ar[<<"div", p[3], p[5]>>],
             d |-> Ar[<<"div", p[4], p[5]>>]]
      [] p[1] = "qmul" ->
            IF p[2].n = << >> \/ p[3].n = << >>
            THEN QSignedZero(p[2].neg # p[3].neg)
            ELSE Ar[<<"qmulg", p[2], p[3], Ar[<<"gcd", p[2].n, p[3].d>>],
                      Ar[<<"gcd", p[3].n, p[2].d>>]>>]
      [] p[1] = "qmulg" ->
            \* with p[4] = gcd(a.n, b.d) and p[5] = gcd(b.n, a.d)
            [neg |-> p[2].neg # p[3].neg,
             n |-> Ar[<<"mul", Ar[<<"div", p[2].n, p[4]>>],
                        Ar[<<"div", p[3].n, p[5]>>]>>],
             d |-> Ar[<<"mul", Ar[<<"div", p[2].d, p[5]>>],
                        Ar[<<"div", p[3].d, p[4]>>]>>]]
      [] p[1] = "qaddsame" ->
            \* (sign p[2]) p[3]/p[6] + (sign p[4]) p[5]/p[6]
            IF p[2] = p[4] THEN Ar[<<"qmake", p[2], NAdd(p[3], p[5]), p[6]>>]
            ELSE IF NCmp(p[3], p[5]) = 0 THEN QZero
            ELSE IF NCmp(p[3], p[5]) > 0
            THEN Ar[<<"qmake", p[2], NSub(p[3], p[5]), p[6]>>]
            ELSE Ar[<<"qmake", p[4], NSub(p[5], p[3]), p[6]>>]
      [] p[1] = "qadd" ->
            \* an exact cancellation gives +0, (-0) + (-0) gives -0
            IF p[2].n = << >> /\ p[3].n = << >>
            THEN QSignedZero(p[2].neg /\ p[3].neg)
            ELSE IF p[2].n = << >> THEN p[3]
            ELSE IF p[3].n = << >> THEN p[2]
            ELSE IF p[2].d = p[3].d
            THEN Ar[<<"qaddsame", p[2].neg, p[2].n, p[3].neg, p[3].n, p[2].d>>]
            ELSE Ar[<<"qaddg", p[2], p[3], Ar[<<"gcd", p[2].d, p[3].d>>]>>]
      [] p[1] = "qaddg" ->
            \* with p[4] the gcd of the denominators
            Ar[<<"qaddd", p[2], p[3], Ar[<<"div", p[2].d, p[4]>>],
                 Ar[<<"div", p[3].d, p[4]>>]>>]
      [] p[1] = "qaddd" ->
            \* with p[4] = a.d / g and p[5] = b.d / g
            Ar[<<"qaddsame", p[2].neg, Ar[<<"mul", p[2].n, p[5]>>],
                 p[3].neg, Ar[<<"mul", p[3].n, p[4]>>],
                 Ar[<<"mul", p[2].d, p[5]>>]>>]
      [] p[1] = "vmulfin" ->
            \* the product of the finite nonzero values p[2] and p[3], with
            \* p[4] the product of their coefficients and p[5] the sum of the
            \* arguments of their exp factors
            (CASE p[2].s = 0 ->
                    [k |-> "fin", q |-> p[4], s |-> p[3].s, rad |-> p[3].rad,
                     e |-> p[5]]
               [] p[2].s = 1 /\ p[3].s = 0 ->
                    [k |-> "fin", q |-> p[4], s |-> 1, rad |-> p[2].rad,
                     e |-> p[5]]
               [] p[2].s = 1 /\ p[3].s = 1 /\ p[2].rad = p[3].rad ->
                    [k |-> "fin", q |-> Ar[<<"qmul", p[4], p[2].rad>>], s |-> 0,
                     rad |-> QOne, e |-> p[5]])
      [] p[1] = "vinvfin" ->
            \* 1/b for a finite nonzero b = p[2]; 1/sqrt(r) = sqrt(r)/r
            [k |-> "fin",
             q |-> IF p[2].s = 1
                   THEN Ar[<<"qmul", QInv(p[2].q), QInv(p[2].rad)>>]
                   ELSE QInv(p[2].q),
             s |-> p[2].s, rad |-> p[2].rad,
             e |-> IF QIsZero(p[2].e) THEN p[2].e ELSE QNeg(p[2].e)]
      [] p[1] = "vmul" ->
            \* IEEE-754: inf * 0 = NaN, the sign is the exclusive or
            IF p[2].k = "nan" \/ p[3].k = "nan" THEN VNaN
            ELSE IF p[2].k = "inf" \/ p[3].k = "inf"
            THEN (IF VIsZero(p[2]) \/ VIsZero(p[3]) THEN VNaN
                  ELSE VInf(p[2].q.neg # p[3].q.neg))
            ELSE IF QIsZero(p[2].q) \/ QIsZero(p[3].q)
            THEN VSignedZero(p[2].q.neg # p[3].q.neg)
            ELSE Ar[<<"vmulfin", p[2], p[3], Ar[<<"qmul", p[2].q, p[3].q>>],
                      Ar[<<"qadd", p[2].e, p[3].e>>]>>]
      [] p[1] = "vdiv" ->
            \* IEEE-754: 0/0 = inf/inf = NaN, x/0 = inf, x/inf = 0
            IF p[2].k = "nan" \/ p[3].k = "nan" THEN VNaN
            ELSE IF p[2].k = "inf"
            THEN (IF p[3].k = "inf" THEN VNaN ELSE VInf(p[2].q.neg # p[3].q.neg))
            ELSE IF p[3].k = "inf" THEN VSignedZero(p[2].q.neg # p[3].q.neg)
            ELSE IF QIsZero(p[3].q)
            THEN (IF QIsZero(p[2].q) THEN VNaN
                  ELSE VInf(p[2].q.neg # p[3].q.neg))
            ELSE IF QIsZero(p[2].q) THEN VSignedZero(p[2].q.neg # p[3].q.neg)
            ELSE Ar[<<"vmul", p[2], Ar[<<"vinvfin", p[3]>>]>>]
      [] p[1] = "vadd" ->
            \* IEEE-754: inf + (-inf) = NaN, x + (-x) = +0; two finite nonzero
            \* values are added when their sqrt and exp factors are the same
            IF p[2].k = "nan" \/ p[3].k = "nan" THEN VNaN
            ELSE IF p[2].k = "inf"
            THEN (IF p[3].k = "inf" /\ p[2].q.neg # p[3].q.neg THEN VNaN
                  ELSE p[2])
            ELSE IF p[3].k = "inf" THEN p[3]
            ELSE IF QIsZero(p[2].q) /\ QIsZero(p[3].q)
            THEN VRat(Ar[<<"qadd", p[2].q, p[3].q>>])
            ELSE IF QIsZero(p[2].q) THEN p[3]
            ELSE IF QIsZero(p[3].q) THEN p[2]
            ELSE (CASE p[2].s = p[3].s /\ p[2].rad = p[3].rad /\ p[2].e = p[3].e ->
                    Ar[<<"vaddq", p[2], Ar[<<"qadd", p[2].q, p[3].q>>]>>])
      [] p[1] = "vaddq" ->
            \* p[2] with the coefficient p[3]
            IF QIsZero(p[3]) THEN VRat(p[3]) ELSE [p[2] EXCEPT !.q = p[3]]
      [] p[1] = "vsqrt" ->
            \* std::sqrt: exact for a ratio of squares below 10^8, else the
            \* symbol sqrt(a)
            IF p[2].k = "nan" THEN VNaN
            ELSE IF p[2].k = "inf" THEN (IF p[2].q.neg THEN VNaN ELSE p[2])
            ELSE IF QIsZero(p[2].q) THEN p[2]
            ELSE IF p[2].q.neg THEN VNaN
            ELSE (CASE VIsRational(p[2]) ->
                    Ar[<<"vsqrtq", p[2],
                         IF NFits(p[2].q.n)
                         THEN Ar[<<"isqrt", NInt(p[2].q.n), 0, Base>>] ELSE -1,
                         IF NFits(p[2].q.d)
                         THEN Ar[<<"isqrt", NInt(p[2].q.d), 0, Base>>] ELSE -1>>])
      [] p[1] = "vsqrtq" ->
            \* with the integer roots p[3], p[4] of numerator and denominator,
            \* or -1
            IF p[3] >= 0 /\ p[4] >= 0
            THEN VRat([neg |-> FALSE, n |-> NFromInt(p[3]), d |-> NFromInt(p[4])])
            ELSE [k |-> "fin", q |-> QOne, s |-> 1, rad |-> p[2].q, e |-> QZero]
      [] p[1] = "vexp" ->
            \* std::exp: exp(+-0) = 1, exp(-inf) = +0, else the symbol exp(a)
            IF p[2].k = "nan" THEN VNaN
            ELSE IF p[2].k = "inf" THEN (IF p[2].q.neg THEN VZero ELSE p[2])
            ELSE IF QIsZero(p[2].q) THEN VOne
            ELSE (CASE VIsRational(p[2]) ->
                    [k |-> "fin", q |-> QOne, s |-> 0, rad |-> QOne,
                     e |-> p[2].q])
      [] p[1] = "vdec" ->
            \* the decimal literal p[2] * 10^(-p[3])
            VRat(Ar[<<"qmake", p[2] < 0,
                      NFromInt(IF p[2] < 0 THEN -p[2] ELSE p[2]),
                      Ar[<<"pow10", p[3]>>]>>])

\* the operators of double
VAdd(a, b) == Ar[<<"vadd", a, b>>]

VSub(a, b) == Ar[<<"vadd", a, VNeg(b)>>]

VMul(a, b) == Ar[<<"vmul", a, b>>]

\* a faulty division: a quotient by zero is replaced by zero
VDivSafe(a, b) == IF VIsZero(b) THEN VZero ELSE Ar[<<"vdiv", a, b>>]

VDiv(a, b) == Ar[<<"vdiv", a, b>>]

VSqrt(a) == Ar[<<"vsqrt", a>>]

VExp(a) == Ar[<<"vexp", a>>]

\* the decimal literal m * 10^(-k)
VDec(m, k) == Ar[<<"vdec", m, k>>]

\* static_cast<double>(i), and small integer literals (|i| < Base)
VInt(i) ==
    VRat([neg |-> i < 0,
          n |-> IF i = 0 THEN << >> ELSE <<IF i < 0 THEN -i ELSE i>>,
          d |-> <<1>>])

\* the same double up to the sign of a zero (NaN is the same as NaN)
VSame(a, b) == a = b \/ (VIsZero(a) /\ VIsZero(b))

(***************************************************************************)
(* The coefficient tables and the reference constants.                     *)
(***************************************************************************)
\* static const double Hi[4]
Hi == <<VDec(167752, 5), VDec(220462, 5), VDec(6366564, 7), VDec(-241605, 6)>>

\* static const double Hij[6][7]
Hij ==
    << <<VDec(520094, 6), VDec(222531, 6), VDec(-281378, 6), VDec(161913, 6),
         VDec(-325372, 7), VZero, VZero>>,
       <<VDec(850895, 7), VDec(999115, 6), VDec(-906851, 6), VDec(257399, 6),
         VZero, VZero, VZero>>,
       <<VDec(-108374, 5), VDec(188797, 5), VDec(-772479, 6), VZero, VZero,
         VZero, VZero>>,
       <<VDec(-289555, 6), VDec(126613, 5), VDec(-489837, 6), VZero,
         VDec(698452, 7), VZero, VDec(-435673, 8)>>,
       <<VZero, VZero, VDec(-25704, 5), VZero, VZero, VDec(872102, 8), VZero>>,
       <<VZero, VDec(120573, 6), VZero, VZero, VZero, VZero,
         VDec(-593264, 9)>> >>

\* reference temperature in K
ref_T == VDec(647096, 3)

\* reference density in kg/m^3
ref_rho == VDec(3220, 1)

\* reference viscosity in Pa.s
ref_mu == VDec(1, 6)

(***************************************************************************)
(* One call.  A frame c holds the arguments and locals of a call of        *)
(* getValue, getdValuedT or getdValuedRho with the helpers it runs inline: *)
(* pc names the loop being run, ph its place in the call's sequence of     *)
(* loops, sT and sRho are the vectors series_factorT and series_factorRho, *)
(* Hi and Hij the tables as the call reads them, iters counts executed     *)
(* loop bodies.                                                            *)
(***************************************************************************)
Ops == {"getValue", "getdValuedT", "getdValuedRho"}

\* the loops a call runs, in the order of the code
Prog(op) ==
    CASE op = "getValue" -> <<"mu0f", "seriesT", "seriesRho", "mu1f">>
      [] op = "getdValuedT" ->
            <<"mu0f", "dmu0", "seriesT", "seriesRho", "dmu1T", "mu1f">>
      [] op = "getdValuedRho" ->
            <<"seriesT", "seriesRho", "dmu1Rho", "mu0f", "mu1f">>

IdleFrame ==
    [pc |-> "idle", ph |-> 0, op |-> "none", T |-> VZero, rho |-> VZero,
     bar_T |-> VZero, bar_rho |-> VZero, i |-> 0, j |-> 0,
     sum_val |-> VZero, barT_i |-> VZero, barT_fac |-> VZero,
     sum_val_j |-> VZero, mu0_factor |-> VZero, mu1_factor |-> VZero,
     dmu0_factor_dbarT |-> VZero, dmu1_factor_dbarT |-> VZero,
     dmu1_factor_dbar_rho |-> VZero, ret |-> VZero, iters |-> 0,
     sT |-> << >>, sRho |-> << >>, Hi |-> << >>, Hij |-> << >>]

\* ---- computeBarMu0Factor: for (int i = 0; i < 4; i++)
Mu0FactorInit(c) ==
    [c EXCEPT !.pc = "mu0f", !.sum_val = VZero, !.barT_i = VOne, !.i = 0]

\* a faulty loop bound: the last coefficient is left out
Mu0FactorCondShort(c) == c.i < 3

Mu0FactorCond(c) == c.i < 4

\* a faulty body: the running power of barT is not advanced
Mu0FactorBodyNoPower(c) ==
    [c EXCEPT !.sum_val = VAdd(c.sum_val, VDiv(c.Hi[c.i + 1], c.barT_i)),
              !.i = c.i + 1,
              !.iters = c.iters + 1]

Mu0FactorBody(c) ==
    [c EXCEPT !.sum_val = VAdd(c.sum_val, VDiv(c.Hi[c.i + 1], c.barT_i)),
              !.barT_i = VMul(c.barT_i, c.bar_T),
              !.i = c.i + 1,
              !.iters = c.iters + 1]

\* a faulty start: the running power starts at barT, not barT * barT
DMu0InitLinear(c) ==
    [c EXCEPT !.pc = "dmu0", !.dmu0_factor_dbarT = VZero,
              !.barT_i = c.bar_T, !.i = 1]

\* ---- computedBarMu_dbarT: for (int i = 1; i < 4; i++)
DMu0Init(c) ==
    [c EXCEPT !.pc = "dmu0", !.dmu0_factor_dbarT = VZero,
              !.barT_i = VMul(c.bar_T, c.bar_T), !.i = 1]

DMu0Cond(c) == c.i < 4

DMu0Body(c) ==
    [c EXCEPT !.dmu0_factor_dbarT =
                  VSub(c.dmu0_factor_dbarT,
                       VMul(VInt(c.i), VDiv(c.Hi[c.i + 1], c.barT_i))),
              !.barT_i = VMul(c.barT_i, c.bar_T),
              !.i = c.i + 1,
              !.iters = c.iters + 1]

\* a faulty start: the base is 1 / barT, not 1 / barT - 1
SeriesTInitNoShift(c) ==
    [c EXCEPT !.pc = "seriesT",
              !.sT = <<VOne, VZero, VZero, VZero, VZero, VZero>>,
              !.barT_fac = VDiv(VOne, c.bar_T),
              !.i = 1]

\* ---- computeSeriesFactorTForMu1: for (int i = 1; i < 6; i++)
SeriesTInit(c) ==
    [c EXCEPT !.pc = "seriesT",
              !.sT = <<VOne, VZero, VZero, VZero, VZero, VZero>>,
              !.barT_fac = VSub(VDiv(VOne, c.bar_T), VOne),
              !.i = 1]

\* a faulty condition: the loop stops at the first power that is zero
SeriesTCondUntilZero(c) == c.i < 6 /\ ~VIsZero(c.sT[c.i])

SeriesTCond(c) == c.i < 6

SeriesTBody(c) ==
    [c EXCEPT !.sT = [c.sT EXCEPT ![c.i + 1] = VMul(c.sT[c.i], c.barT_fac)],
              !.i = c.i + 1,
              !.iters = c.iters + 1]

\* ---- computeSeriesFactorRhoForMu1: for (int i = 1; i < 7; i++)
SeriesRhoInit(c) ==
    [c EXCEPT !.pc = "seriesRho",
              !.sRho = <<VOne, VZero, VZero, VZero, VZero, VZero, VZero>>,
              !.i = 1]

SeriesRhoCond(c) == c.i < 7

\* a faulty body: the base is bar_rho, not bar_rho - 1
SeriesRhoBodyNoShift(c) ==
    [c EXCEPT !.sRho = [c.sRho EXCEPT ![c.i + 1] = VMul(c.sRho[c.i], c.bar_rho)],
              !.i = c.i + 1,
              !.iters = c.iters + 1]

SeriesRhoBody(c) ==
    [c EXCEPT !.sRho = [c.sRho EXCEPT
                           ![c.i + 1] = VMul(c.sRho[c.i], VSub(c.bar_rho, VOne))],
              !.i = c.i + 1,
              !.iters = c.iters + 1]

\* ---- computeBarMu1Factor: for (i = 0; i < 6; i++) for (j = 0; j < 7; j++)
Mu1FactorInit(c) ==
    [c EXCEPT !.pc = "mu1f", !.sum_val = VZero, !.i = 0,
              !.sum_val_j = VZero, !.j = 0]

Mu1FactorCond(c) == c.i < 6

Mu1FactorInnerCond(c) == c.j < 7

Mu1FactorInnerBody(c) ==
    [c EXCEPT !.sum_val_j =
                  VAdd(c.sum_val_j, VMul(c.Hij[c.i + 1][c.j + 1], c.sRho[c.j + 1])),
              !.j = c.j + 1,
              !.iters = c.iters + 1]

\* the rest of the outer body, up to the start of the next inner loop
Mu1FactorOuterBody(c) ==
    [c EXCEPT !.sum_val = VAdd(c.sum_val, VMul(c.sT[c.i + 1], c.sum_val_j)),
              !.i = c.i + 1,
              !.sum_val_j = VZero, !.j = 0,
              !.iters = c.iters + 1]

\* ---- computedBarMu_dbarT: for (i = 1; i < 6; i++) for (j = 0; j < 7; j++)
DMu1TInit(c) ==
    [c EXCEPT !.pc = "dmu1T", !.dmu1_factor_dbarT = VZero, !.i = 1,
              !.sum_val_j = VZero, !.j = 0]

DMu1TCond(c) == c.i < 6

DMu1TInnerCond(c) == c.j < 7

DMu1TInnerBody(c) ==
    [c EXCEPT !.sum_val_j =
                  VAdd(c.sum_val_j, VMul(c.Hij[c.i + 1][c.j + 1], c.sRho[c.j + 1])),
              !.j = c.j + 1,
              !.iters = c.iters + 1]

DMu1TOuterBody(c) ==
    [c EXCEPT !.dmu1_factor_dbarT =
                  VSub(c.dmu1_factor_dbarT,
                       VDiv(VMul(VMul(VInt(c.i), c.sT[c.i]), c.sum_val_j),
                            VMul(c.bar_T, c.bar_T))),
              !.i = c.i + 1,
              !.sum_val_j = VZero, !.j = 0,
              !.iters = c.iters + 1]

\* ---- computedBarMu_dbarRho: for (i = 0; i < 6; i++) for (j = 1; j < 7; j++)
DMu1RhoInit(c) ==
    [c EXCEPT !.pc = "dmu1Rho", !.dmu1_factor_dbar_rho = VZero, !.i = 0,
              !.sum_val_j = VZero, !.j = 1]

DMu1RhoCond(c) == c.i < 6

DMu1RhoInnerCond(c) == c.j < 7

\* a faulty body: the factor j of the derivative is left out
DMu1RhoInnerBodyNoFactor(c) ==
    [c EXCEPT !.sum_val_j =
                  VAdd(c.sum_val_j, VMul(c.Hij[c.i + 1][c.j + 1], c.sRho[c.j])),
              !.j = c.j + 1,
              !.iters = c.iters + 1]

DMu1RhoInnerBody(c) ==
    [c EXCEPT !.sum_val_j =
                  VAdd(c.sum_val_j,
                       VMul(VMul(VInt(c.j), c.Hij[c.i + 1][c.j + 1]), c.sRho[c.j])),
              !.j = c.j + 1,
              !.iters = c.iters + 1]

DMu1RhoOuterBody(c) ==
    [c EXCEPT !.dmu1_factor_dbar_rho =
                  VAdd(c.dmu1_factor_dbar_rho, VMul(c.sT[c.i + 1], c.sum_val_j)),
              !.i = c.i + 1,
              !.sum_val_j = VZero, !.j = 1,
              !.iters = c.iters + 1]

\* a faulty return: the exponent is mu1_factor, not bar_rho * mu1_factor
RetGetValueNoRho(c) ==
    LET mu0 == VDiv(VMul(VInt(100), VSqrt(c.bar_T)), c.mu0_factor)
        mu1 == VExp(c.mu1_factor)
    IN  VMul(VMul(mu0, mu1), ref_mu)

\* ---- getValue, lines 50-59
RetGetValue(c) ==
    LET mu0 == VDiv(VMul(VInt(100), VSqrt(c.bar_T)), c.mu0_factor)
        mu1 == VExp(VMul(c.bar_rho, c.mu1_factor))
    IN  VMul(VMul(mu0, mu1), ref_mu)

\* ---- computedBarMu_dbarT, lines 143-180, and getdValuedT, line 71
RetGetdValuedT(c) ==
    LET mu0_factor == c.mu0_factor
        sqrt_barT == VSqrt(c.bar_T)
        dbar_mu0_dbarT ==
            VSub(VDiv(VInt(50), VMul(mu0_factor, sqrt_barT)),
                 VDiv(VMul(VMul(VInt(100), sqrt_barT), c.dmu0_factor_dbarT),
                      VMul(mu0_factor, mu0_factor)))
        expo == VExp(VMul(c.bar_rho, c.mu1_factor))
        dbar_mu1_dbarT == VMul(VMul(c.bar_rho, expo), c.dmu1_factor_dbarT)
        dbarMu == VAdd(VMul(dbar_mu0_dbarT, expo),
                       VDiv(VMul(VMul(dbar_mu1_dbarT, VInt(100)), sqrt_barT),
                            mu0_factor))
    IN  VDiv(VMul(ref_mu, dbarMu), ref_T)

\* ---- computedBarMu_dbarRho, lines 202-207, and getdValuedRho, line 83
RetGetdValuedRho(c) ==
    LET mu0 == VDiv(VMul(VInt(100), VSqrt(c.bar_T)), c.mu0_factor)
        dbarMu == VMul(VMul(mu0, VExp(VMul(c.bar_rho, c.mu1_factor))),
                       VAdd(c.mu1_factor,
                            VMul(c.bar_rho, c.dmu1_factor_dbar_rho)))
    IN  VDiv(VMul(ref_mu, dbarMu), ref_rho)

\* entering loop p: its declarations and the loop's init statement
PhaseInit(c, p) ==
    CASE p = "mu0f" -> Mu0FactorInit(c)
      [] p = "dmu0" -> DMu0Init(c)
      [] p = "seriesT" -> SeriesTInit(c)
      [] p = "seriesRho" -> SeriesRhoInit(c)
      [] p = "mu1f" -> Mu1FactorInit(c)
      [] p = "dmu1T" -> DMu1TInit(c)
      [] p = "dmu1Rho" -> DMu1RhoInit(c)

\* the condition of the (outer) loop the call is in
LoopCond(c) ==
    CASE c.pc = "mu0f" -> Mu0FactorCond(c)
      [] c.pc = "dmu0" -> DMu0Cond(c)
      [] c.pc = "seriesT" -> SeriesTCond(c)
      [] c.pc = "seriesRho" -> SeriesRhoCond(c)
      [] c.pc = "mu1f" -> Mu1FactorCond(c)
      [] c.pc = "dmu1T" -> DMu1TCond(c)
      [] c.pc = "dmu1Rho" -> DMu1RhoCond(c)
      [] OTHER -> FALSE

InLoop(c) == c.pc \notin {"idle", "ret", "done"}

\* one loop body (of the inner loop while it runs)
LoopBody(c) ==
    CASE c.pc = "mu0f" -> Mu0FactorBody(c)
      [] c.pc = "dmu0" -> DMu0Body(c)
      [] c.pc = "seriesT" -> SeriesTBody(c)
      [] c.pc = "seriesRho" -> SeriesRhoBody(c)
      [] c.pc = "mu1f" ->
            IF Mu1FactorInnerCond(c) THEN Mu1FactorInnerBody(c)
            ELSE Mu1FactorOuterBody(c)
      [] c.pc = "dmu1T" ->
            IF DMu1TInnerCond(c) THEN DMu1TInnerBody(c) ELSE DMu1TOuterBody(c)
      [] c.pc = "dmu1Rho" ->
            IF DMu1RhoInnerCond(c) THEN DMu1RhoInnerBody(c)
            ELSE DMu1RhoOuterBody(c)

\* return sum_val of computeBarMu0Factor and computeBarMu1Factor
LoopResult(c) ==
    CASE c.pc = "mu0f" -> [c EXCEPT !.mu0_factor = c.sum_val]
      [] c.pc = "mu1f" -> [c EXCEPT !.mu1_factor = c.sum_val]
      [] OTHER -> c

\* leaving a finished loop for the next one of the call
Advance(c) ==
    LET d == [LoopResult(c) EXCEPT !.ph = c.ph + 1]
    IN  IF c.ph = Len(Prog(c.op)) THEN [d EXCEPT !.pc = "ret"]
        ELSE PhaseInit(d, Prog(c.op)[c.ph + 1])

\* the return statement of the entry point
Finish(c) ==
    [c EXCEPT !.pc = "done",
              !.ret = CASE c.op = "getValue" -> RetGetValue(c)
                        [] c.op = "getdValuedT" -> RetGetdValuedT(c)
                        [] c.op = "getdValuedRho" -> RetGetdValuedRho(c)]

\* the entry point's first lines: bar_T = T / _ref_T, bar_rho = rho / _ref_rho
Enter(op, T, rho, hi, hij) ==
    PhaseInit([IdleFrame EXCEPT !.op = op, !.T = T, !.rho = rho,
                                !.bar_T = VDiv(T, ref_T),
                                !.bar_rho = VDiv(rho, ref_rho),
                                !.ph = 1, !.Hi = hi, !.Hij = hij],
              Prog(op)[1])

(***************************************************************************)
(* The functions as operators: a call run from entry to return.            *)
(***************************************************************************)
RECURSIVE RunLoop(_)
RunLoop(c) == IF LoopCond(c) THEN RunLoop(LoopBody(c)) ELSE c

RECURSIVE RunCall(_)
RunCall(c) == IF c.pc = "ret" THEN Finish(c) ELSE RunCall(Advance(RunLoop(c)))

CallResult(op, T, rho) == RunCall(Enter(op, T, rho, Hi, Hij)).ret

getValue(T, rho) == CallResult("getValue", T, rho)

getdValuedT(T, rho) == CallResult("getdValuedT", T, rho)

getdValuedRho(T, rho) == CallResult("getdValuedRho", T, rho)

HelperFrame(barT, bar_rho) ==
    [IdleFrame EXCEPT !.bar_T = barT, !.bar_rho = bar_rho, !.Hi = Hi, !.Hij = Hij]

computeBarMu0Factor(barT) ==
    RunLoop(Mu0FactorInit(HelperFrame(barT, VZero))).sum_val

computeSeriesFactorTForMu1(barT) ==
    RunLoop(SeriesTInit(HelperFrame(barT, VZero))).sT

computeSeriesFactorRhoForMu1(bar_rho) ==
    RunLoop(SeriesRhoInit(HelperFrame(VZero, bar_rho))).sRho

computeBarMu1Factor(series_factorT, series_factorRho) ==
    RunLoop(Mu1FactorInit([HelperFrame(VZero, VZero) EXCEPT
                               !.sT = series_factorT,
                               !.sRho = series_factorRho])).sum_val

(***************************************************************************)
(* Callers.  The arguments a caller passes are decimal literals; the grid  *)
(* steps are a quarter of the reference temperature and half the reference *)
(* density, so that T = 0 and the critical point are on the grid.          *)
(***************************************************************************)
MaxTQuarter == 4

MaxRhoHalf == 3

\* k * 161.774 K
TGrid(k) == VDec(k * 161774, 3)

\* k * 161.0 kg/m^3
RhoGrid(k) == VDec(k * 1610, 1)

GridInputs ==
    {<<TGrid(k), RhoGrid(m)>> : k \in 0..MaxTQuarter, m \in 0..MaxRhoHalf}

\* off the grid; negative, infinite and NaN arguments
OtherInputs ==
    { <<VDec(4529672, 4), VDec(966, 1)>>,
      <<VDec(-323548, 3), VDec(1610, 1)>>,
      <<VDec(323548, 3), VDec(-1610, 1)>>,
      <<VInf(FALSE), VDec(3220, 1)>>,
      <<VInf(TRUE), VDec(3220, 1)>>,
      <<VNaN, VDec(3220, 1)>>,
      <<VDec(323548, 3), VInf(FALSE)>>,
      <<VDec(323548, 3), VNaN>>,
      <<VSignedZero(TRUE), VDec(1610, 1)>>,
      <<VZero, VDec(-1610, 1)>> }

Inputs == GridInputs \cup OtherInputs

Threads == {1, 2}

\* two callers at once, with different arguments: caller 1 evaluates the
\* viscosity and its derivative in T, caller 2 the viscosity and its derivative
\* in rho
ConcInputs(t) ==
    IF t = 1 THEN {<<TGrid(1), RhoGrid(3)>>} ELSE {<<TGrid(3), RhoGrid(1)>>}

ConcOps(t) ==
    IF t = 1 THEN {"getValue", "getdValuedT"} ELSE {"getValue", "getdValuedRho"}

VARIABLES
    fr,      \* fr[t]: the frame of caller t's call (locals without the vectors)
    vecT,    \* vecT[s]: the storage of the vector series_factorT in slot s
    vecRho,  \* vecRho[s]: the storage of the vector series_factorRho in slot s
    mem,     \* the tables Hi and Hij in memory
    env      \* who calls: "single" (caller 1 alone) or "conc" (both callers)

vars == <<fr, vecT, vecRho, mem, env>>

FreeVecT == <<VZero, VZero, VZero, VZero, VZero, VZero>>

FreeVecRho == <<VZero, VZero, VZero, VZero, VZero, VZero, VZero>>

\* a faulty allocation: all calls use the same vectors (static storage)
SharedVecSlot(t) == 1

\* each call allocates its own vectors: std::vector<double> series_factorT(6)
VecSlot(t) == t

\* the arguments caller t may pass
ArgsOf(t) ==
    IF env = "conc" THEN ConcInputs(t)
    ELSE IF t = 1 THEN Inputs ELSE {}

\* the entry points caller t may call
OpsOf(t) == IF env = "conc" THEN ConcOps(t) ELSE Ops

\* the call of caller t as it sees memory
Load(t) ==
    [fr[t] EXCEPT !.sT = vecT[VecSlot(t)], !.sRho = vecRho[VecSlot(t)],
                  !.Hi = mem.Hi, !.Hij = mem.Hij]

Locals(c) == [c EXCEPT !.sT = << >>, !.sRho = << >>, !.Hi = << >>, !.Hij = << >>]

\* caller t's call becomes c; a vector is written while its loop is filling it
Store(t, c) ==
    /\ fr' = [fr EXCEPT ![t] = Locals(c)]
    /\ vecT' = IF c.pc = "seriesT" THEN [vecT EXCEPT ![VecSlot(t)] = c.sT]
               ELSE IF c.pc = "done" THEN [vecT EXCEPT ![VecSlot(t)] = FreeVecT]
               ELSE vecT
    /\ vecRho' = IF c.pc = "seriesRho" THEN [vecRho EXCEPT ![VecSlot(t)] = c.sRho]
                 ELSE IF c.pc = "done"
                 THEN [vecRho EXCEPT ![VecSlot(t)] = FreeVecRho]
                 ELSE vecRho
    /\ UNCHANGED <<mem, env>>

\* the new frame is computed once
Commit(t, c) == \E d \in {c} : Store(t, d)

InitMem ==
    /\ fr = [t \in Threads |-> Locals(IdleFrame)]
    /\ vecT = [t \in Threads |-> FreeVecT]
    /\ vecRho = [t \in Threads |-> FreeVecRho]
    /\ mem = [Hi |-> Hi, Hij |-> Hij]

Init == InitMem /\ env = "single"

InitConc == InitMem /\ env = "conc"

\* a caller enters getValue, getdValuedT or getdValuedRho
Call(t) ==
    /\ fr[t].pc \in {"idle", "done"}
    /\ \E op \in OpsOf(t), a \in ArgsOf(t) :
          Commit(t, Enter(op, a[1], a[2], mem.Hi, mem.Hij))

Mu0FactorIter(t) ==
    /\ fr[t].pc = "mu0f"
    /\ Mu0FactorCond(Load(t))
    /\ Commit(t, Mu0FactorBody(Load(t)))

DMu0Iter(t) ==
    /\ fr[t].pc = "dmu0"
    /\ DMu0Cond(Load(t))
    /\ Commit(t, DMu0Body(Load(t)))

SeriesTIter(t) ==
    /\ fr[t].pc = "seriesT"
    /\ SeriesTCond(Load(t))
    /\ Commit(t, SeriesTBody(Load(t)))

SeriesRhoIter(t) ==
    /\ fr[t].pc = "seriesRho"
    /\ SeriesRhoCond(Load(t))
    /\ Commit(t, SeriesRhoBody(Load(t)))

Mu1FactorInner(t) ==
    /\ fr[t].pc = "mu1f"
    /\ Mu1FactorCond(Load(t))
    /\ Mu1FactorInnerCond(Load(t))
    /\ Commit(t, Mu1FactorInnerBody(Load(t)))

Mu1FactorOuter(t) ==
    /\ fr[t].pc = "mu1f"
    /\ Mu1FactorCond(Load(t))
    /\ ~Mu1FactorInnerCond(Load(t))
    /\ Commit(t, Mu1FactorOuterBody(Load(t)))

DMu1TInner(t) ==
    /\ fr[t].pc = "dmu1T"
    /\ DMu1TCond(Load(t))
    /\ DMu1TInnerCond(Load(t))
    /\ Commit(t, DMu1TInnerBody(Load(t)))

DMu1TOuter(t) ==
    /\ fr[t].pc = "dmu1T"
    /\ DMu1TCond(Load(t))
    /\ ~DMu1TInnerCond(Load(t))
    /\ Commit(t, DMu1TOuterBody(Load(t)))

DMu1RhoInner(t) ==
    /\ fr[t].pc = "dmu1Rho"
    /\ DMu1RhoCond(Load(t))
    /\ DMu1RhoInnerCond(Load(t))
    /\ Commit(t, DMu1RhoInnerBody(Load(t)))

DMu1RhoOuter(t) ==
    /\ fr[t].pc = "dmu1Rho"
    /\ DMu1RhoCond(Load(t))
    /\ ~DMu1RhoInnerCond(Load(t))
    /\ Commit(t, DMu1RhoOuterBody(Load(t)))

\* a loop's condition fails: the helper returns, the next loop is entered
LoopExit(t) ==
    /\ InLoop(fr[t])
    /\ ~LoopCond(Load(t))
    /\ Commit(t, Advance(Load(t)))

\* the entry point returns; its vectors are destroyed
Return(t) ==
    /\ fr[t].pc = "ret"
    /\ Commit(t, Finish(Load(t)))

\* a step of a running call
Run(t) ==
    \/ Mu0FactorIter(t)
    \/ DMu0Iter(t)
    \/ SeriesTIter(t)
    \/ SeriesRhoIter(t)
    \/ Mu1FactorInner(t)
    \/ Mu1FactorOuter(t)
    \/ DMu1TInner(t)
    \/ DMu1TOuter(t)
    \/ DMu1RhoInner(t)
    \/ DMu1RhoOuter(t)
    \/ LoopExit(t)
    \/ Return(t)

Next == \E t \in Threads : Call(t) \/ Run(t)

\* a call that has been entered keeps running
Fairness == \A t \in Threads : WF_vars(Run(t))

Spec == Init /\ [][Next]_vars /\ Fairness

SpecConc == InitConc /\ [][Next]_vars /\ Fairness

(***************************************************************************)
(* The formulas of the IAPWS correlation in closed form, on the same       *)
(* doubles: powers by VPow, sums by VSum over the sequence of the terms.   *)
(* Two results are equal as doubles compare (-0 = +0), or both NaN.        *)
(***************************************************************************)
RECURSIVE VPow(_, _)
VPow(b, k) == IF k = 0 THEN VOne ELSE VMul(VPow(b, k - 1), b)

RECURSIVE VSum(_)
VSum(terms) ==
    IF terms = << >> THEN VZero
    ELSE VAdd(VSum(SubSeq(terms, 1, Len(terms) - 1)), terms[Len(terms)])

\* T > 0 as doubles compare (+infinity included)
VPositive(a) == a.k # "nan" /\ ~a.q.neg /\ ~VIsZero(a)

BarT(T) == VDiv(T, VDec(647096, 3))

BarRho(rho) == VDiv(rho, VDec(3220, 1))

MuRef == VDec(1, 6)

\* f0 = sum over i = 0..3 of Hi[i] / barT^i
F0(barT) == VSum([i \in 1..4 |-> VDiv(Hi[i], VPow(barT, i - 1))])

\* S_T[k] = (1/barT - 1)^k and S_rho[k] = (barRho - 1)^k
S_T(barT, k) == VPow(VSub(VDiv(VOne, barT), VOne), k)

S_rho(barRho, k) == VPow(VSub(barRho, VOne), k)

\* sum over j = 0..6 of Hij[i][j] * S_rho[j], for the row i = 0..5
RowSum(i, barRho) == VSum([j \in 1..7 |-> VMul(Hij[i + 1][j], S_rho(barRho, j - 1))])

\* f1 = sum over i = 0..5 of S_T[i] * (sum over j = 0..6 of Hij[i][j] * S_rho[j])
F1(barT, barRho) ==
    VSum([i \in 1..6 |-> VMul(S_T(barT, i - 1), RowSum(i - 1, barRho))])

Mu0(barT) == VDiv(VMul(VInt(100), VSqrt(barT)), F0(barT))

Mu1(barT, barRho) == VExp(VMul(barRho, F1(barT, barRho)))

\* mu = mu_ref * mu0 * mu1
ClosedMu(T, rho) ==
    VMul(MuRef, VMul(Mu0(BarT(T)), Mu1(BarT(T), BarRho(rho))))

\* df0/dbarT = - sum over i = 1..3 of i * Hi[i] / barT^(i+1)
DF0(barT) ==
    VNeg(VSum([i \in 1..3 |-> VDiv(VMul(VInt(i), Hi[i + 1]), VPow(barT, i + 1))]))

\* dmu0/dbarT = 50 / (f0 * sqrt(barT)) - 100 * sqrt(barT) * (df0/dbarT) / f0^2
DMu0(barT) ==
    VSub(VDiv(VInt(50), VMul(F0(barT), VSqrt(barT))),
         VDiv(VMul(VMul(VInt(100), VSqrt(barT)), DF0(barT)),
              VMul(F0(barT), F0(barT))))

\* df1/dbarT = -(1/barT^2) * sum over i = 1..5 of i * S_T[i-1] * RowSum(i)
DF1DT(barT, barRho) ==
    VNeg(VMul(VDiv(VOne, VMul(barT, barT)),
              VSum([i \in 1..5 |->
                       VMul(VMul(VInt(i), S_T(barT, i - 1)), RowSum(i, barRho))])))

\* dmu1/dbarT = barRho * exp(barRho * f1) * df1/dbarT
DMu1(barT, barRho) ==
    VMul(VMul(barRho, Mu1(barT, barRho)), DF1DT(barT, barRho))

\* dmu/dT = mu_ref * (dmu0/dbarT * mu1 + dmu1/dbarT * mu0) / T_ref
ClosedDMuDT(T, rho) ==
    LET barT == BarT(T)
        barRho == BarRho(rho)
    IN  VDiv(VMul(MuRef, VAdd(VMul(DMu0(barT), Mu1(barT, barRho)),
                              VMul(DMu1(barT, barRho), Mu0(barT)))),
             VDec(647096, 3))

\* df1/dbarRho = sum over i = 0..5 of S_T[i] * sum over j = 1..6 of
\* j * Hij[i][j] * S_rho[j-1]
DF1DRho(barT, barRho) ==
    VSum([i \in 1..6 |->
             VMul(S_T(barT, i - 1),
                  VSum([j \in 1..6 |->
                           VMul(VMul(VInt(j), Hij[i][j + 1]),
                                S_rho(barRho, j - 1))]))])

\* f1 + barRho * df1/dbarRho
RhoFactor(barT, barRho) ==
    VAdd(F1(barT, barRho), VMul(barRho, DF1DRho(barT, barRho)))

\* dmu/drho = mu_ref * mu0 * exp(barRho * f1) * (f1 + barRho * df1/dbarRho) / rho_ref
ClosedDMuDRho(T, rho) ==
    LET barT == BarT(T)
        barRho == BarRho(rho)
    IN  VDiv(VMul(MuRef, VMul(VMul(Mu0(barT), Mu1(barT, barRho)),
                              RhoFactor(barT, barRho))),
             VDec(3220, 1))

\* the place of loop p in the call of op, and whether call c has finished it
PhaseOf(op, p) == CHOOSE k \in 1..Len(Prog(op)) : Prog(op)[k] = p

Finished(c, p) ==
    c.pc \in {"ret", "done"} \/ (c.pc # "idle" /\ c.ph > PhaseOf(c.op, p))

\* call c has returned from op
Returned(c, op) == c.pc = "done" /\ c.op = op

\* the vectors of caller t's call, alive from their loop to the return
LiveT(t) == fr[t].pc = "seriesT" \/ (Finished(fr[t], "seriesT") /\ fr[t].pc # "done")

LiveRho(t) ==
    fr[t].pc = "seriesRho" \/ (Finished(fr[t], "seriesRho") /\ fr[t].pc # "done")

\* C1: for T > 0 and every rho, getValue returns mu_ref * mu0 * mu1 with
\* mu0 = 100 * sqrt(barT) / f0 and mu1 = exp(barRho * f1), and the running-power
\* loops compute the closed-form sums f0 and f1
C1_GetValueClosedForm ==
    \A t \in Threads :
        (Returned(fr[t], "getValue") /\ VPositive(fr[t].T)) =>
            /\ VSame(fr[t].ret, ClosedMu(fr[t].T, fr[t].rho))
            /\ VSame(fr[t].mu0_factor, F0(BarT(fr[t].T)))
            /\ VSame(fr[t].mu1_factor, F1(BarT(fr[t].T), BarRho(fr[t].rho)))

C1_Witness ==
    /\ Returned(fr[1], "getValue")
    /\ fr[1].T = VDec(4529672, 4)
    /\ fr[1].rho = VDec(966, 1)
    /\ VIsFinite(fr[1].ret) /\ ~VIsZero(fr[1].ret)
    /\ fr[1].ret.s = 1 /\ ~QIsZero(fr[1].ret.e)

\* C2: for T > 0 and every rho, getdValuedT returns
\* mu_ref * (dmu0/dbarT * mu1 + dmu1/dbarT * mu0) / T_ref, with mu0 and mu1 the
\* values getValue uses for the same arguments
C2_GetdValuedTClosedForm ==
    \A t \in Threads :
        (Returned(fr[t], "getdValuedT") /\ VPositive(fr[t].T)) =>
            /\ VSame(fr[t].ret, ClosedDMuDT(fr[t].T, fr[t].rho))
            /\ VSame(fr[t].dmu0_factor_dbarT, DF0(BarT(fr[t].T)))
            /\ VSame(fr[t].dmu1_factor_dbarT,
                     DF1DT(BarT(fr[t].T), BarRho(fr[t].rho)))
            /\ VSame(VMul(VMul(VDiv(VMul(VInt(100), VSqrt(fr[t].bar_T)),
                                    fr[t].mu0_factor),
                               VExp(VMul(fr[t].bar_rho, fr[t].mu1_factor))),
                          ref_mu),
                     getValue(fr[t].T, fr[t].rho))

C2_Witness ==
    /\ Returned(fr[1], "getdValuedT")
    /\ fr[1].T = VDec(4529672, 4)
    /\ fr[1].rho = VDec(966, 1)
    /\ VIsFinite(fr[1].ret) /\ ~VIsZero(fr[1].ret)
    /\ ~VIsZero(fr[1].dmu1_factor_dbarT)

\* C3: for T > 0 and every rho, getdValuedRho returns
\* mu_ref * mu0 * exp(barRho * f1) * (f1 + barRho * df1/dbarRho) / rho_ref, which is
\* getValue(T, rho) * (f1 + barRho * df1/dbarRho) / rho_ref
C3_GetdValuedRhoClosedForm ==
    \A t \in Threads :
        (Returned(fr[t], "getdValuedRho") /\ VPositive(fr[t].T)) =>
            /\ VSame(fr[t].ret, ClosedDMuDRho(fr[t].T, fr[t].rho))
            /\ VSame(fr[t].dmu1_factor_dbar_rho,
                     DF1DRho(BarT(fr[t].T), BarRho(fr[t].rho)))
            /\ VSame(fr[t].ret,
                     VDiv(VMul(getValue(fr[t].T, fr[t].rho),
                               RhoFactor(BarT(fr[t].T), BarRho(fr[t].rho))),
                          VDec(3220, 1)))

C3_Witness ==
    /\ Returned(fr[1], "getdValuedRho")
    /\ fr[1].T = VDec(4529672, 4)
    /\ fr[1].rho = VDec(966, 1)
    /\ VIsFinite(fr[1].ret) /\ ~VIsZero(fr[1].ret)
    /\ ~VIsZero(fr[1].dmu1_factor_dbar_rho)

\* one step of a call run alone; a call that has returned stays as it is
Step(c) ==
    IF c.pc = "done" THEN c
    ELSE IF c.pc = "ret" THEN Finish(c)
    ELSE IF LoopCond(c) THEN LoopBody(c)
    ELSE Advance(c)

\* the n >= 1 frames a call run alone goes through from frame c on
RECURSIVE TraceFrom(_, _)
TraceFrom(c, n) ==
    IF n = 1 THEN <<c>>
    ELSE LET first == TraceFrom(c, n \div 2)
         IN  first \o TraceFrom(Step(first[n \div 2]), n - n \div 2)

\* no call takes more steps than this
MaxSteps == 120

\* the place of frame c in the trace of its call: every step adds one
Pos(c) == c.iters + c.ph + (IF c.pc = "done" THEN 1 ELSE 0)

\* the calls of SpecConc, each run alone
AloneTraces ==
    [t \in Threads |->
        [op \in ConcOps(t) |->
            LET a == CHOOSE a \in ConcInputs(t) : TRUE
            IN  TraceFrom(Enter(op, a[1], a[2], Hi, Hij), MaxSteps)]]

AloneResults ==
    [t \in Threads |->
        [op \in ConcOps(t) |->
            LET a == CHOOSE a \in ConcInputs(t) : TRUE
            IN  CallResult(op, a[1], a[2])]]

\* C4: in every interleaving of concurrent and repeated calls, a call goes through
\* the frames and returns the result of the same call run alone, its vectors hold
\* what it wrote itself, and the tables Hi and Hij hold their initial values
C4_CallsIndependent ==
    /\ mem = [Hi |-> Hi, Hij |-> Hij]
    /\ \A t \in Threads :
          fr[t].pc # "idle" =>
              LET a == AloneTraces[t][fr[t].op][Pos(fr[t])]
              IN  /\ fr[t] = Locals(a)
                  /\ LiveT(t) => vecT[VecSlot(t)] = a.sT
                  /\ LiveRho(t) => vecRho[VecSlot(t)] = a.sRho
                  /\ fr[t].pc = "done" => fr[t].ret = AloneResults[t][fr[t].op]

C4_Witness ==
    /\ fr[1].pc = "mu1f" /\ fr[1].op = "getdValuedT" /\ fr[1].i = 3
    /\ fr[2].pc = "seriesRho" /\ fr[2].op = "getdValuedRho" /\ fr[2].i = 4
    /\ vecT[1] # vecT[2]

\* C5: with T = 0 and a finite rho each entry point returns a value that is not
\* finite; and a call never ends in an error: it is at one of its loops or returns
\* a double
C5_ZeroTNotFinite ==
    \A t \in Threads :
        /\ fr[t].pc \in {"idle", "mu0f", "dmu0", "seriesT", "seriesRho", "mu1f",
                         "dmu1T", "dmu1Rho", "ret", "done"}
        /\ fr[t].pc = "done" =>
              /\ fr[t].ret.k \in {"fin", "inf", "nan"}
              /\ (VIsZero(fr[t].T) /\ VIsFinite(fr[t].rho)) => ~VIsFinite(fr[t].ret)

C5_Witness ==
    /\ Returned(fr[1], "getdValuedRho")
    /\ VIsZero(fr[1].T) /\ ~fr[1].T.q.neg
    /\ fr[1].rho = VDec(3220, 1)
    /\ VIsNaN(fr[1].ret)

\* the loop bodies a call of op runs: the loops of 4, 3, 5 and 6 rounds, and the
\* double loops with their 6 (or 5) outer and 7 (or 6) inner rounds
IterCount(op) ==
    CASE op = "getValue" -> 4 + 5 + 6 + 6 * (7 + 1)
      [] op = "getdValuedT" -> 4 + 3 + 5 + 6 + 5 * (7 + 1) + 6 * (7 + 1)
      [] op = "getdValuedRho" -> 5 + 6 + 6 * (6 + 1) + 4 + 6 * (7 + 1)

\* C6: every call terminates, whatever its arguments, and it has then run the
\* same fixed number of loop bodies
C6_TerminatesFixedCount ==
    /\ \A t \in Threads : (fr[t].pc \notin {"idle", "done"}) ~> (fr[t].pc = "done")
    /\ [](\A t \in Threads : fr[t].pc = "done" => fr[t].iters = IterCount(fr[t].op))

C6_Witness ==
    /\ Returned(fr[1], "getdValuedT")
    /\ VIsInf(fr[1].T)
    /\ fr[1].iters = 106

\* caller t's call is at the critical point T = 647.096, rho = 322.0
AtCriticalPoint(t) ==
    /\ fr[t].pc # "idle"
    /\ fr[t].T = VDec(647096, 3)
    /\ fr[t].rho = VDec(3220, 1)

\* C7: at the critical point the series vectors are [1,0,0,0,0,0] and
\* [1,0,0,0,0,0,0], and computeBarMu1Factor returns Hij[0][0] = 0.520094
C7_CriticalPoint ==
    \A t \in Threads :
        AtCriticalPoint(t) =>
            /\ fr[t].bar_T = VOne /\ fr[t].bar_rho = VOne
            /\ Finished(fr[t], "mu1f") =>
                  fr[t].mu1_factor =
                      computeBarMu1Factor(computeSeriesFactorTForMu1(fr[t].bar_T),
                                          computeSeriesFactorRhoForMu1(fr[t].bar_rho))
            /\ (Finished(fr[t], "seriesT") /\ fr[t].pc # "done") =>
                  vecT[VecSlot(t)] = <<VOne, VZero, VZero, VZero, VZero, VZero>>
            /\ (Finished(fr[t], "seriesRho") /\ fr[t].pc # "done") =>
                  vecRho[VecSlot(t)] =
                      <<VOne, VZero, VZero, VZero, VZero, VZero, VZero>>
            /\ Finished(fr[t], "mu1f") =>
                  /\ fr[t].mu1_factor = Hij[1][1]
                  /\ fr[t].mu1_factor = VDec(520094, 6)

C7_Witness ==
    /\ AtCriticalPoint(1)
    /\ fr[1].pc = "ret" /\ fr[1].op = "getValue"
    /\ vecT[1][2] = VZero /\ vecRho[1][7] = VZero
    /\ fr[1].mu1_factor = VDec(520094, 6)

\* the sum of the four Hi coefficients
HiSum == VAdd(VAdd(VAdd(Hi[1], Hi[2]), Hi[3]), Hi[4])

\* caller t's call has barT = 1 and has run computeBarMu0Factor
Mu0FactorAtOne(t) ==
    fr[t].pc # "idle" /\ fr[t].bar_T = VOne /\ Finished(fr[t], "mu0f")

\* C8 as stated: computeBarMu0Factor(1) is the sum of the four Hi coefficients,
\* and that sum is 4.2771814
C8_AsStated ==
    \A t \in Threads :
        Mu0FactorAtOne(t) =>
            /\ fr[t].mu0_factor = computeBarMu0Factor(VOne)
            /\ fr[t].mu0_factor = HiSum
            /\ HiSum = VDec(42771814, 7)

\* C8: computeBarMu0Factor(1) is the sum of the four Hi coefficients,
\* 1.67752 + 2.20462 + 0.6366564 - 0.241605, and that sum is 4.2771914
C8_Mu0FactorAtOne ==
    \A t \in Threads :
        Mu0FactorAtOne(t) =>
            /\ fr[t].mu0_factor = computeBarMu0Factor(VOne)
            /\ fr[t].mu0_factor = HiSum
            /\ HiSum = VDec(42771914, 7)

C8_Witness ==
    /\ Mu0FactorAtOne(1)
    /\ fr[1].pc = "seriesT" /\ fr[1].op = "getValue"
    /\ fr[1].mu0_factor = VDec(42771914, 7)

\* C9: computeSeriesFactorTForMu1 returns 6 elements, the powers 0..5 of
\* 1/barT - 1, each the one before times the base; computeSeriesFactorRhoForMu1
\* returns 7 elements, the powers 0..6 of barRho - 1; element 0 is 1
C9_SeriesArePowers ==
    \A t \in Threads :
        /\ (Finished(fr[t], "seriesT") /\ fr[t].pc # "done") =>
              LET S == vecT[VecSlot(t)]
                  base == VSub(VDiv(VOne, fr[t].bar_T), VOne)
              IN  /\ S = computeSeriesFactorTForMu1(fr[t].bar_T)
                  /\ Len(S) = 6
                  /\ S[1] = VOne
                  /\ \A k \in 1..5 : /\ S[k + 1] = VMul(S[k], base)
                                     /\ S[k + 1] = VPow(base, k)
        /\ (Finished(fr[t], "seriesRho") /\ fr[t].pc # "done") =>
              LET S == vecRho[VecSlot(t)]
                  base == VSub(fr[t].bar_rho, VOne)
              IN  /\ S = computeSeriesFactorRhoForMu1(fr[t].bar_rho)
                  /\ Len(S) = 7
                  /\ S[1] = VOne
                  /\ \A k \in 1..6 : /\ S[k + 1] = VMul(S[k], base)
                                     /\ S[k + 1] = VPow(base, k)
        /\ LiveT(t) => vecT[VecSlot(t)][1] = VOne
        /\ LiveRho(t) => vecRho[VecSlot(t)][1] = VOne

C9_Witness ==
    /\ fr[1].pc = "mu1f"
    /\ fr[1].T = VDec(4529672, 4) /\ fr[1].rho = VDec(966, 1)
    /\ ~VIsZero(vecT[1][6]) /\ vecT[1][6] # VOne
    /\ ~VIsZero(vecRho[1][7]) /\ vecRho[1][7] # VOne

\* caller t's call has rho = 0 and a finite T > 0
ZeroDensity(t) ==
    VIsZero(fr[t].rho) /\ VIsFinite(fr[t].T) /\ VPositive(fr[t].T)

====
